---- MODULE Spec2Model ----
(***************************************************************************)
(* Model of bbeeprog.py: the SN74LV8153 nibble protocol and its            *)
(* redundant-write suppression, the timed AT28C256 byte write of BbEeProg, *)
(* and the diff-aware BbEeProg.write driver with its range reports.        *)
(***************************************************************************)
EXTENDS Integers, Sequences, FiniteSets, TLC

VARIABLES
    pc,                 \* position of the program
    serial_open,        \* pyserial.Serial is open
    last_value,         \* SN74LV8153._last_value, per channel
    sink,               \* bytes passed to Serial.write, in order
    now,                \* datetime.datetime.now(), in ms
    dt_last_write,      \* BbEeProg._dt_last_write, in ms
    wb_addr, wb_byte,   \* arguments of the running write_byte
    wb_ret,             \* where the running write_byte returns to
    wb_sink0,           \* length of the sink when the running write_byte began
    t_strobe,           \* clock value at the last strobe assert
    ncalls,             \* number of calls made from outside so far
    data, old_data,     \* arguments of BbEeProg.write
    addr, addr_bound,   \* loop variable of BbEeProg.write, and whether it is bound
    last_chunk_was_old, last_chunk_start,
    reports,            \* lines printed by BbEeProg.write
    calls,              \* write_byte calls issued by BbEeProg.write
    error,              \* exception that ended the program, or "none"
    enc_in, enc_out,    \* argument and result of a _protocol call
    arg_hist,           \* per channel: arguments of the write calls made on it
    ref_sink,           \* sink of a channel that transmits every write
    sink_at_call,       \* length of the sink when BbEeProg.write was called
    w_called            \* BbEeProg.write has been called

vars == <<pc, serial_open, last_value, sink, now, dt_last_write, wb_addr,
          wb_byte, wb_ret, wb_sink0, t_strobe, ncalls, data, old_data, addr, addr_bound,
          last_chunk_was_old, last_chunk_start, reports, calls, error,
          enc_in, enc_out, arg_hist, ref_sink, sink_at_call, w_called>>

----------------------------------------------------------------------------
(* Bounds of the model *)

MaxLen == 3          \* longest data / old_data sequence
MaxCalls == 2        \* direct write_byte calls per session
MaxTime == 30        \* the clock stops ticking on its own beyond this
MaxChanCalls == 4    \* channel write calls in the channel specification
MaxTail == 2         \* bytes of data / old_data after the long common prefix

(* Input sets *)

Channels == 0 .. 2
ByteVals == {1, 2}
WbAddrs == {511, 32767, 32768}
WbVals == {0, 171}
ChanVals == {0, 171, 256, 427}
TickStep == 10

----------------------------------------------------------------------------
(* Bit operations on naturals, as Python computes them *)

RECURSIVE BitOr(_, _)
BitOr(a, b) ==
    IF a = 0 THEN b
    ELSE IF b = 0 THEN a
    ELSE (IF (a % 2 = 1) \/ (b % 2 = 1) THEN 1 ELSE 0)
         + 2 * BitOr(a \div 2, b \div 2)

RECURSIVE BitAnd(_, _)
BitAnd(a, b) ==
    IF a = 0 \/ b = 0 THEN 0
    ELSE (IF (a % 2 = 1) /\ (b % 2 = 1) THEN 1 ELSE 0)
         + 2 * BitAnd(a \div 2, b \div 2)

Shl(a, n) == a * (2 ^ n)
Shr(a, n) == a \div (2 ^ n)

----------------------------------------------------------------------------
(* SN74LV8153 *)

ADDR_HI_WRITE_DISABLE_BIT == Shl(1, 7)
WRITE_CYCLE_MS == 10 + 5
ADDR_LIMIT_wide == 2 ^ 16

ADDR_LIMIT == 2 ^ 15
ADDR_LO == 0
ADDR_HI == 1
DATA == 2
NoValue == -1

protocol_swapped(a, value) ==
    LET low_nibble == BitOr(BitOr(Shl(BitAnd(value, 15), 4), Shl(a, 1)), 1)
        high_nibble == BitOr(BitOr(Shl(Shr(value, 4), 4), Shl(a, 1)), 1)
    IN  <<high_nibble, low_nibble>>

protocol_noaddr(a, value) ==
    LET low_nibble == BitOr(BitOr(Shl(BitAnd(value, 15), 4), Shl(a, 1)), 1)
        high_nibble == BitOr(Shl(Shr(value, 4), 4), 1)
    IN  <<low_nibble, high_nibble>>

protocol(a, value) ==
    LET low_nibble == BitOr(BitOr(Shl(BitAnd(value, 15), 4), Shl(a, 1)), 1)
        high_nibble == BitOr(BitOr(Shl(Shr(value, 4), 4), Shl(a, 1)), 1)
    IN  <<low_nibble, high_nibble>>

(* The receiving chip: a telegram carries the channel in bits 1-3 and a    *)
(* nibble in bits 4-7; the output latch takes the value of a pair of       *)
(* consecutive telegrams for its channel, low nibble first.                *)
TelegramChannel(b) == BitAnd(Shr(b, 1), 7)
TelegramNibble(b) == Shr(b, 4)

PairsOf(s, ch) ==
    {k \in 1 .. (Len(s) \div 2) :
        /\ TelegramChannel(s[2 * k - 1]) = ch
        /\ TelegramChannel(s[2 * k]) = ch}

Latch(s, ch) ==
    IF PairsOf(s, ch) = {} THEN NoValue
    ELSE LET k == CHOOSE i \in PairsOf(s, ch) : \A j \in PairsOf(s, ch) : j <= i
         IN  Shl(TelegramNibble(s[2 * k]), 4) + TelegramNibble(s[2 * k - 1])

----------------------------------------------------------------------------
(* SN74LV8153.write: mask, suppress a repeated value, else send the pair *)

ChanWrite_shared(ch, value) ==
    LET v == BitAnd(value, 255)
    IN  IF v = last_value[ch]
        THEN UNCHANGED <<sink, last_value>>
        ELSE /\ sink' = sink \o protocol(ch, v)
             /\ last_value' = [c \in Channels |-> v]

ChanWrite_nostore(ch, value) ==
    LET v == BitAnd(value, 255)
    IN  IF v = last_value[ch]
        THEN UNCHANGED <<sink, last_value>>
        ELSE /\ sink' = sink \o protocol(ch, v)
             /\ UNCHANGED last_value

ChanWrite(ch, value) ==
    LET v == BitAnd(value, 255)
    IN  IF v = last_value[ch]
        THEN UNCHANGED <<sink, last_value>>
        ELSE /\ sink' = sink \o protocol(ch, v)
             /\ last_value' = [last_value EXCEPT ![ch] = v]

(* SN74LV8153.write when Serial.write raises: the value is not suppressed, *)
(* nothing reaches the sink and the assignment after the call is skipped   *)
ChanWriteFail_early(ch, value) ==
    LET v == BitAnd(value, 255)
    IN  /\ v # last_value[ch]
        /\ UNCHANGED sink
        /\ last_value' = [last_value EXCEPT ![ch] = v]

ChanWriteFail(ch, value) ==
    LET v == BitAnd(value, 255)
    IN  /\ v # last_value[ch]
        /\ UNCHANGED <<sink, last_value>>

(* A channel that sends every write *)
RefWrite(ch, value) == ref_sink' = ref_sink \o protocol(ch, BitAnd(value, 255))

----------------------------------------------------------------------------
(* Initial states *)

InitVars(p, e) ==
    /\ pc = p
    /\ enc_in = e
    /\ enc_out = <<>>
    /\ serial_open = FALSE
    /\ last_value = [c \in Channels |-> NoValue]
    /\ sink = <<>>
    /\ now = 0
    /\ dt_last_write = 0
    /\ wb_addr = 0
    /\ wb_byte = 0
    /\ wb_ret = "open"
    /\ wb_sink0 = 0
    /\ t_strobe = 0
    /\ ncalls = 0
    /\ data = <<>>
    /\ old_data = <<>>
    /\ addr = 0
    /\ addr_bound = FALSE
    /\ last_chunk_was_old = FALSE
    /\ last_chunk_start = 0
    /\ reports = <<>>
    /\ calls = <<>>
    /\ error = "none"
    /\ arg_hist = [c \in Channels |-> <<>>]
    /\ ref_sink = <<>>
    /\ sink_at_call = 0
    /\ w_called = FALSE

Init == InitVars("new", <<0, 0>>)

InitEnc == \E a \in 0 .. 7, v \in 0 .. 255 : InitVars("enc", <<a, v>>)

InitChan == InitVars("chan", <<0, 0>>)

(* BbEeProg.write in a fresh session on two long sequences that agree on   *)
(* their first PrefixLen bytes, when the loop has gone through these: the  *)
(* session has sent the write disable pair, every address so far was       *)
(* skipped, nothing was reported and nothing written.                      *)
PrefixLen == (2 ^ 15) - 1

Prefix == [i \in 1 .. PrefixLen |-> 1]

Tails(n) == UNION {[1 .. k -> ByteVals] : k \in 0 .. n}

InitLong ==
    \E dt \in Tails(MaxTail), ot \in Tails(MaxTail) :
        /\ pc = "w_next"
        /\ data = Prefix \o dt
        /\ old_data = Prefix \o ot
        /\ addr = PrefixLen - 1
        /\ addr_bound = TRUE
        /\ last_chunk_was_old = TRUE
        /\ last_chunk_start = 0
        /\ reports = <<>>
        /\ calls = <<>>
        /\ w_called = TRUE
        /\ sink_at_call = 2
        /\ serial_open = TRUE
        /\ sink = protocol(ADDR_HI, ADDR_HI_WRITE_DISABLE_BIT)
        /\ last_value = [c \in Channels |->
                            IF c = ADDR_HI THEN ADDR_HI_WRITE_DISABLE_BIT
                            ELSE NoValue]
        /\ now = 0
        /\ dt_last_write = 0
        /\ wb_addr = 0
        /\ wb_byte = 0
        /\ wb_ret = "open"
        /\ wb_sink0 = 0
        /\ t_strobe = 0
        /\ ncalls = 0
        /\ error = "none"
        /\ enc_in = <<0, 0>>
        /\ enc_out = <<>>
        /\ arg_hist = [c \in Channels |-> <<>>]
        /\ ref_sink = <<>>

----------------------------------------------------------------------------
(* A call of SN74LV8153._protocol *)

Encode ==
    /\ pc = "enc"
    /\ enc_out' = protocol(enc_in[1], enc_in[2])
    /\ pc' = "enc_done"
    /\ UNCHANGED <<serial_open, last_value, sink, now, dt_last_write, wb_addr,
                   wb_byte, wb_ret, wb_sink0, t_strobe, ncalls, data, old_data, addr,
                   addr_bound, last_chunk_was_old, last_chunk_start, reports,
                   calls, error, enc_in, arg_hist, ref_sink, sink_at_call, w_called>>

(* A call of SN74LV8153.write on one of three channel objects sharing a sink *)

ChanWriteCall(ch, v) ==
    /\ pc = "chan"
    /\ ncalls < MaxChanCalls
    /\ ChanWrite(ch, v)
    /\ RefWrite(ch, v)
    /\ arg_hist' = [arg_hist EXCEPT ![ch] = Append(@, v)]
    /\ ncalls' = ncalls + 1
    /\ UNCHANGED <<pc, serial_open, now, dt_last_write, wb_addr, wb_byte,
                   wb_ret, wb_sink0, t_strobe, data, old_data, addr, addr_bound,
                   last_chunk_was_old, last_chunk_start, reports, calls,
                   error, enc_in, enc_out, sink_at_call, w_called>>

----------------------------------------------------------------------------
(* The clock.  The program reads it in __enter__ and in write_byte before  *)
(* the delay and after the strobe, and the strobe itself happens at a      *)
(* time; time that passes anywhere else is time that has passed before     *)
(* the next of these points.                                               *)

Tick ==
    /\ pc \in {"new", "wb_delay", "wb_strobe", "wb_stamp"}
    /\ now < MaxTime
    /\ now' = now + TickStep
    /\ UNCHANGED <<pc, serial_open, last_value, sink, dt_last_write, wb_addr,
                   wb_byte, wb_ret, wb_sink0, t_strobe, ncalls, data, old_data, addr,
                   addr_bound, last_chunk_was_old, last_chunk_start, reports,
                   calls, error, enc_in, enc_out, arg_hist, ref_sink, sink_at_call, w_called>>

----------------------------------------------------------------------------
(* BbEeProg.__enter__ and __exit__ *)

drv == <<data, old_data, addr, addr_bound, last_chunk_was_old,
         last_chunk_start, reports, calls>>
ghost == <<enc_in, enc_out, arg_hist, ref_sink, sink_at_call, w_called>>

Enter ==
    /\ pc = "new"
    /\ serial_open' = TRUE
    /\ ChanWrite(ADDR_HI, ADDR_HI_WRITE_DISABLE_BIT)
    /\ dt_last_write' = now
    /\ pc' = "open"
    /\ UNCHANGED <<now, wb_addr, wb_byte, wb_ret, wb_sink0, t_strobe, ncalls, error>>
    /\ UNCHANGED drv
    /\ UNCHANGED ghost

Exit ==
    /\ pc \in {"open", "ran", "raised"}
    /\ serial_open' = FALSE
    /\ pc' = "closed"
    /\ UNCHANGED <<last_value, sink, now, dt_last_write, wb_addr, wb_byte,
                   wb_ret, wb_sink0, t_strobe, ncalls, error>>
    /\ UNCHANGED drv
    /\ UNCHANGED ghost

----------------------------------------------------------------------------
(* BbEeProg.write_byte, one action per statement *)

(* the call and its assertion on the address *)
WbEnter_wide(a, b, ret) ==
    /\ wb_addr' = a
    /\ wb_byte' = b
    /\ wb_ret' = ret
    /\ wb_sink0' = Len(sink)
    /\ IF a <= 65535
       THEN pc' = "wb_data" /\ error' = error
       ELSE pc' = "raised" /\ error' = "AssertionError"

WbEnter(a, b, ret) ==
    /\ wb_addr' = a
    /\ wb_byte' = b
    /\ wb_ret' = ret
    /\ wb_sink0' = Len(sink)
    /\ IF a <= 32767
       THEN pc' = "wb_data" /\ error' = error
       ELSE pc' = "raised" /\ error' = "AssertionError"

CallWriteByte(a, b) ==
    /\ pc = "open"
    /\ ncalls < MaxCalls
    /\ ncalls' = ncalls + 1
    /\ WbEnter(a, b, "open")
    /\ UNCHANGED <<serial_open, last_value, sink, now, dt_last_write, t_strobe>>
    /\ UNCHANGED drv
    /\ UNCHANGED ghost

wbrest == <<serial_open, wb_addr, wb_byte, wb_ret, wb_sink0, ncalls, error>>

WbData ==
    /\ pc = "wb_data"
    /\ ChanWrite(DATA, wb_byte)
    /\ pc' = "wb_addr_lo"
    /\ UNCHANGED <<now, dt_last_write, t_strobe>>
    /\ UNCHANGED wbrest
    /\ UNCHANGED drv
    /\ UNCHANGED ghost

WbAddrLo ==
    /\ pc = "wb_addr_lo"
    /\ ChanWrite(ADDR_LO, BitAnd(wb_addr, 255))
    /\ pc' = "wb_addr_hi"
    /\ UNCHANGED <<now, dt_last_write, t_strobe>>
    /\ UNCHANGED wbrest
    /\ UNCHANGED drv
    /\ UNCHANGED ghost

WbAddrHi_nosetup ==
    /\ pc = "wb_addr_hi"
    /\ pc' = "wb_delay"
    /\ UNCHANGED <<sink, last_value, now, dt_last_write, t_strobe>>
    /\ UNCHANGED wbrest
    /\ UNCHANGED drv
    /\ UNCHANGED ghost

WbAddrHi ==
    /\ pc = "wb_addr_hi"
    /\ ChanWrite(ADDR_HI, BitOr(Shr(wb_addr, 8), ADDR_HI_WRITE_DISABLE_BIT))
    /\ pc' = "wb_delay"
    /\ UNCHANGED <<now, dt_last_write, t_strobe>>
    /\ UNCHANGED wbrest
    /\ UNCHANGED drv
    /\ UNCHANGED ghost

(* delay = (last write + write cycle) - now(); sleep(delay) if positive *)
WbDelay_nosleep ==
    /\ pc = "wb_delay"
    /\ pc' = "wb_strobe"
    /\ UNCHANGED <<now, last_value, sink, dt_last_write, t_strobe>>
    /\ UNCHANGED wbrest
    /\ UNCHANGED drv
    /\ UNCHANGED ghost

WbDelay ==
    /\ pc = "wb_delay"
    /\ LET delay == (dt_last_write + WRITE_CYCLE_MS) - now
       IN  now' = IF delay > 0 THEN now + delay ELSE now
    /\ pc' = "wb_strobe"
    /\ UNCHANGED <<last_value, sink, dt_last_write, t_strobe>>
    /\ UNCHANGED wbrest
    /\ UNCHANGED drv
    /\ UNCHANGED ghost

(* strobe write enable (nWE, active low) *)
WbStrobe_disabled ==
    /\ pc = "wb_strobe"
    /\ ChanWrite(ADDR_HI, BitOr(Shr(wb_addr, 8), ADDR_HI_WRITE_DISABLE_BIT))
    /\ t_strobe' = now
    /\ pc' = "wb_release"
    /\ UNCHANGED <<now, dt_last_write>>
    /\ UNCHANGED wbrest
    /\ UNCHANGED drv
    /\ UNCHANGED ghost

WbStrobe ==
    /\ pc = "wb_strobe"
    /\ ChanWrite(ADDR_HI, Shr(wb_addr, 8))
    /\ t_strobe' = now
    /\ pc' = "wb_release"
    /\ UNCHANGED <<now, dt_last_write>>
    /\ UNCHANGED wbrest
    /\ UNCHANGED drv
    /\ UNCHANGED ghost

WbRelease_skip ==
    /\ pc = "wb_release"
    /\ pc' = "wb_stamp"
    /\ UNCHANGED <<sink, last_value, now, dt_last_write, t_strobe>>
    /\ UNCHANGED wbrest
    /\ UNCHANGED drv
    /\ UNCHANGED ghost

WbRelease ==
    /\ pc = "wb_release"
    /\ ChanWrite(ADDR_HI, BitOr(Shr(wb_addr, 8), ADDR_HI_WRITE_DISABLE_BIT))
    /\ pc' = "wb_stamp"
    /\ UNCHANGED <<now, dt_last_write, t_strobe>>
    /\ UNCHANGED wbrest
    /\ UNCHANGED drv
    /\ UNCHANGED ghost

WbStamp ==
    /\ pc = "wb_stamp"
    /\ dt_last_write' = now
    /\ pc' = wb_ret
    /\ UNCHANGED <<last_value, sink, now, t_strobe>>
    /\ UNCHANGED wbrest
    /\ UNCHANGED drv
    /\ UNCHANGED ghost

----------------------------------------------------------------------------
(* BbEeProg.write *)

Seqs(S, n) == UNION {[1 .. k -> S] : k \in 0 .. n}

Report(kind, start, end, count) ==
    [kind |-> kind, start |-> start, end |-> end, count |-> count]

(* itertools.zip_longest(data, old_data): element i exists while either    *)
(* sequence has one; a missing byte is None, which equals no byte          *)
ZipLen_shortest(d, o) == IF Len(d) >= Len(o) THEN Len(o) ELSE Len(d)

ZipLen(d, o) == IF Len(d) >= Len(o) THEN Len(d) ELSE Len(o)

HasByte(s, i) == i < Len(s)

SameByte_fill(d, o, i) ==
    HasByte(d, i) /\ (~HasByte(o, i) \/ d[i + 1] = o[i + 1])

SameByte(d, o, i) == HasByte(d, i) /\ HasByte(o, i) /\ d[i + 1] = o[i + 1]

CallWrite(d, o) ==
    /\ pc = "open"
    /\ ncalls = 0
    /\ data' = d
    /\ old_data' = o
    /\ last_chunk_was_old' = FALSE
    /\ last_chunk_start' = 0
    /\ sink_at_call' = Len(sink)
    /\ w_called' = TRUE
    /\ pc' = "w_next"
    /\ UNCHANGED <<addr, addr_bound, reports, calls>>
    /\ UNCHANGED <<serial_open, last_value, sink, now, dt_last_write, wb_addr,
                   wb_byte, wb_ret, wb_sink0, t_strobe, ncalls, error>>
    /\ UNCHANGED <<enc_in, enc_out, arg_hist, ref_sink>>

(* one pass through the head of the for loop, up to continue, break, the   *)
(* call of write_byte, or the end of the iteration                         *)
WNext ==
    /\ pc = "w_next"
    /\ LET i == IF addr_bound THEN addr + 1 ELSE 0
       IN  IF i >= ZipLen(data, old_data)
           THEN /\ pc' = "w_final"
                /\ UNCHANGED <<addr, addr_bound, last_chunk_was_old,
                               last_chunk_start, reports, calls, wb_addr,
                               wb_byte, wb_ret, wb_sink0, error>>
           ELSE /\ addr' = i
                /\ addr_bound' = TRUE
                /\ IF ~(i < ADDR_LIMIT)
                   THEN /\ pc' = "raised"
                        /\ error' = "AssertionError"
                        /\ UNCHANGED <<last_chunk_was_old, last_chunk_start,
                                       reports, calls, wb_addr, wb_byte, wb_ret,
                                       wb_sink0>>
                   ELSE IF ~HasByte(data, i)
                   THEN /\ pc' = "w_final"
                        /\ UNCHANGED <<last_chunk_was_old, last_chunk_start,
                                       reports, calls, wb_addr, wb_byte,
                                       wb_ret, wb_sink0, error>>
                   ELSE IF SameByte(data, old_data, i)
                   THEN /\ IF ~last_chunk_was_old
                           THEN /\ last_chunk_was_old' = TRUE
                                /\ reports' =
                                     IF i # 0
                                     THEN Append(reports,
                                            Report("Wrote", last_chunk_start,
                                                   i - 1, i - last_chunk_start))
                                     ELSE reports
                                /\ last_chunk_start' = i
                           ELSE UNCHANGED <<last_chunk_was_old,
                                            last_chunk_start, reports>>
                        /\ pc' = "w_next"
                        /\ UNCHANGED <<calls, wb_addr, wb_byte, wb_ret,
                                       wb_sink0, error>>
                   ELSE /\ IF last_chunk_was_old
                           THEN /\ last_chunk_was_old' = FALSE
                                /\ reports' =
                                     Append(reports,
                                            Report("Skipped", last_chunk_start,
                                                   i - 1, i - last_chunk_start))
                                /\ last_chunk_start' = i
                           ELSE UNCHANGED <<last_chunk_was_old,
                                            last_chunk_start, reports>>
                        /\ calls' = Append(calls, <<i, data[i + 1]>>)
                        /\ WbEnter(i, data[i + 1], "w_next")
    /\ UNCHANGED <<data, old_data>>
    /\ UNCHANGED <<serial_open, last_value, sink, now, dt_last_write,
                   t_strobe, ncalls>>
    /\ UNCHANGED ghost

(* the report after the loop *)
WFinal ==
    /\ pc = "w_final"
    /\ IF ~last_chunk_was_old
       THEN IF ~addr_bound
            THEN /\ pc' = "raised"
                 /\ error' = "UnboundLocalError"
                 /\ UNCHANGED reports
            ELSE /\ reports' =
                      Append(reports,
                             Report("Wrote", last_chunk_start, addr,
                                    addr + 1 - last_chunk_start))
                 /\ pc' = "ran"
                 /\ UNCHANGED error
       ELSE /\ reports' =
                 IF last_chunk_start = 0
                 THEN Append(reports, Report("Nothing", 0, 0, 0))
                 ELSE Append(reports,
                             Report("Skipped", last_chunk_start, addr,
                                    addr + 1 - last_chunk_start))
            /\ pc' = "ran"
            /\ UNCHANGED error
    /\ UNCHANGED <<data, old_data, addr, addr_bound, last_chunk_was_old,
                   last_chunk_start, calls>>
    /\ UNCHANGED <<serial_open, last_value, sink, now, dt_last_write, wb_addr,
                   wb_byte, wb_ret, wb_sink0, t_strobe, ncalls>>
    /\ UNCHANGED ghost

----------------------------------------------------------------------------
(* Transport failures: Serial.write raises in one of the channel writes *)

(* in write_byte: the exception leaves write_byte, and write if it is the  *)
(* caller, and reaches the with statement                                  *)
WbFail ==
    /\ \/ pc = "wb_data" /\ ChanWriteFail(DATA, wb_byte)
       \/ pc = "wb_addr_lo" /\ ChanWriteFail(ADDR_LO, BitAnd(wb_addr, 255))
       \/ /\ pc = "wb_addr_hi"
          /\ ChanWriteFail(ADDR_HI,
                           BitOr(Shr(wb_addr, 8), ADDR_HI_WRITE_DISABLE_BIT))
       \/ pc = "wb_strobe" /\ ChanWriteFail(ADDR_HI, Shr(wb_addr, 8))
       \/ /\ pc = "wb_release"
          /\ ChanWriteFail(ADDR_HI,
                           BitOr(Shr(wb_addr, 8), ADDR_HI_WRITE_DISABLE_BIT))
    /\ pc' = "raised"
    /\ error' = "SerialException"
    /\ UNCHANGED <<serial_open, now, dt_last_write, wb_addr, wb_byte, wb_ret,
                   wb_sink0, t_strobe, ncalls>>
    /\ UNCHANGED drv
    /\ UNCHANGED ghost

(* in __enter__: the port is open, the exception leaves __enter__, and the *)
(* with statement does not call __exit__ of a manager it did not enter     *)
EnterFail ==
    /\ pc = "new"
    /\ serial_open' = TRUE
    /\ ChanWriteFail(ADDR_HI, ADDR_HI_WRITE_DISABLE_BIT)
    /\ pc' = "aborted"
    /\ error' = "SerialException"
    /\ UNCHANGED <<now, dt_last_write, wb_addr, wb_byte, wb_ret, wb_sink0,
                   t_strobe, ncalls>>
    /\ UNCHANGED drv
    /\ UNCHANGED ghost

----------------------------------------------------------------------------
(* Specifications *)

Next ==
    \/ Enter
    \/ Exit
    \/ Tick
    \/ \E a \in WbAddrs, b \in WbVals : CallWriteByte(a, b)
    \/ WbData
    \/ WbAddrLo
    \/ WbAddrHi
    \/ WbDelay
    \/ WbStrobe
    \/ WbRelease
    \/ WbStamp
    \/ \E d \in Seqs(ByteVals, MaxLen), o \in Seqs(ByteVals, MaxLen) : CallWrite(d, o)
    \/ WNext
    \/ WFinal

Spec == Init /\ [][Next]_vars

NextFail == Next \/ WbFail \/ EnterFail

SpecFail == Init /\ [][NextFail]_vars

NextLong ==
    \/ WNext
    \/ WFinal
    \/ Tick
    \/ WbData
    \/ WbAddrLo
    \/ WbAddrHi
    \/ WbDelay
    \/ WbStrobe
    \/ WbRelease
    \/ WbStamp
    \/ Exit

SpecLong == InitLong /\ [][NextLong]_vars

NextEnc == Encode

SpecEnc == InitEnc /\ [][NextEnc]_vars

NextChan == \E ch \in Channels, v \in ChanVals : ChanWriteCall(ch, v)

SpecChan == InitChan /\ [][NextChan]_vars

----------------------------------------------------------------------------
(* Properties *)

Bit0(b) == b % 2
Bits1to3(b) == (b \div 2) % 8
Bits4to7(b) == b \div 16

(* C1: for every channel in 0..7 and value in 0..255 the encoder returns   *)
(* exactly two bytes, each with start bit 1 and the channel in bits 1-3,   *)
(* the first carrying the low nibble of the value in bits 4-7 and the      *)
(* second the high nibble; encode(5, 0xAB) = (0xBB, 0xAB).                 *)
C1_Encode ==
    pc = "enc_done" =>
        /\ Len(enc_out) = 2
        /\ \A k \in 1 .. 2 :
              /\ enc_out[k] \in 0 .. 255
              /\ Bit0(enc_out[k]) = 1
              /\ Bits1to3(enc_out[k]) = enc_in[1]
        /\ Bits4to7(enc_out[1]) = enc_in[2] % 16
        /\ Bits4to7(enc_out[2]) = enc_in[2] \div 16
        /\ (enc_in = <<5, 171>> => enc_out = <<187, 171>>)

C1_Witness == pc = "enc_done" /\ enc_in = <<5, 171>> /\ enc_out = <<187, 171>>

(* C2: in every write_byte the three latches hold the data byte, the low   *)
(* address byte and the high address byte with write disable set before    *)
(* the strobe is asserted; asserting and releasing the strobe changes      *)
(* nothing but the write disable bit.                                      *)
C2_SettledBeforeStrobe ==
    /\ pc \in {"wb_delay", "wb_strobe", "wb_stamp"} =>
          /\ Latch(sink, DATA) = wb_byte % 256
          /\ Latch(sink, ADDR_LO) = wb_addr % 256
          /\ Latch(sink, ADDR_HI) = (wb_addr \div 256) + 128
    /\ pc = "wb_release" =>
          /\ Latch(sink, DATA) = wb_byte % 256
          /\ Latch(sink, ADDR_LO) = wb_addr % 256
          /\ Latch(sink, ADDR_HI) = wb_addr \div 256

C2_Witness ==
    /\ pc = "wb_release"
    /\ ncalls = 2
    /\ wb_addr = 32767
    /\ Latch(sink, ADDR_HI) = 127
    /\ Latch(sink, ADDR_LO) = 255

(* C3: the strobe of a write_byte is asserted no earlier than one write    *)
(* cycle after the completion of the previous write_byte (or the session   *)
(* open).                                                                  *)
C3_WriteCycle ==
    /\ pc = "wb_strobe" => now >= dt_last_write + 15
    /\ pc \in {"wb_release", "wb_stamp"} => t_strobe >= dt_last_write + 15

C3_Witness ==
    /\ pc = "wb_release"
    /\ ncalls = 2
    /\ dt_last_write > 0
    /\ t_strobe = dt_last_write + 15

----------------------------------------------------------------------------
(* Properties of BbEeProg.write *)

(* address a of data is skipped: old_data has an equal byte at a *)
IsSkipped(a) == a + 1 <= Len(old_data) /\ data[a + 1] = old_data[a + 1]

CallAddrs == {calls[k][1] : k \in 1 .. Len(calls)}

(* C4 as stated: with a non-empty old_data shorter than data, no address   *)
(* at or past the end of old_data is visited or written.                   *)
C4_StopsAtBaselineEnd ==
    (Len(old_data) > 0 /\ Len(old_data) < Len(data)) =>
        /\ addr_bound => addr < Len(old_data)
        /\ \A a \in CallAddrs : a < Len(old_data)

(* C4 amended: with a non-empty old_data shorter than data, write goes on  *)
(* to the end of data and issues write_byte(a, data[a]) for every address  *)
(* a at or past the end of old_data.                                       *)
C4_WritesPastBaselineEnd ==
    (pc = "ran" /\ Len(old_data) > 0 /\ Len(old_data) < Len(data)) =>
        /\ addr = Len(data) - 1
        /\ \A a \in Len(old_data) .. Len(data) - 1 :
              \E k \in 1 .. Len(calls) : calls[k] = <<a, data[a + 1]>>

C4_Witness ==
    /\ pc = "ran"
    /\ Len(old_data) = 1
    /\ Len(data) = 3
    /\ IsSkipped(0)
    /\ calls = <<<<1, data[2]>>, <<2, data[3]>>>>

(* C5: write issues write_byte(a, data[a]) exactly once for every address  *)
(* of data that is not skipped, for no other address, and in strictly      *)
(* increasing address order.                                               *)
C5_CallsExactlyChanged ==
    /\ \A k \in 1 .. Len(calls) :
          /\ calls[k][1] \in 0 .. Len(data) - 1
          /\ ~IsSkipped(calls[k][1])
          /\ calls[k][2] = data[calls[k][1] + 1]
    /\ \A k \in 1 .. Len(calls) - 1 : calls[k][1] < calls[k + 1][1]
    /\ (pc = "ran" \/ error = "UnboundLocalError") =>
          \A a \in 0 .. Len(data) - 1 : ~IsSkipped(a) => a \in CallAddrs

C5_Witness ==
    /\ pc = "ran"
    /\ Len(data) = 3
    /\ Len(old_data) = 2
    /\ IsSkipped(1)
    /\ CallAddrs = {0, 2}

RECURSIVE SumCounts(_)
SumCounts(rs) == IF rs = <<>> THEN 0 ELSE Head(rs).count + SumCounts(Tail(rs))

(* C6: unless "nothing to do" is reported, the reported runs start at 0,   *)
(* are contiguous, alternate between Wrote and Skipped, have count =       *)
(* end - start + 1, hold only addresses of their own kind, and cover       *)
(* exactly the addresses of data.                                          *)
C6_RunsCoverPrimary ==
    (pc = "ran" /\ reports # <<[kind |-> "Nothing", start |-> 0,
                                end |-> 0, count |-> 0]>>) =>
        /\ Len(reports) > 0
        /\ reports[1].start = 0
        /\ reports[Len(reports)].end = Len(data) - 1
        /\ SumCounts(reports) = Len(data)
        /\ \A k \in 1 .. Len(reports) :
              /\ reports[k].kind \in {"Wrote", "Skipped"}
              /\ reports[k].count = reports[k].end - reports[k].start + 1
              /\ reports[k].count > 0
              /\ \A a \in reports[k].start .. reports[k].end :
                    /\ a < Len(data)
                    /\ IsSkipped(a) <=> reports[k].kind = "Skipped"
        /\ \A k \in 1 .. Len(reports) - 1 :
              /\ reports[k + 1].start = reports[k].end + 1
              /\ reports[k + 1].kind # reports[k].kind

(* C7: without old_data every address of data is written and only Wrote    *)
(* runs are reported.                                                      *)
C7_NoBaselineWritesAll ==
    old_data = <<>> =>
        /\ \A k \in 1 .. Len(reports) : reports[k].kind = "Wrote"
        /\ pc = "ran" =>
              /\ Len(calls) = Len(data)
              /\ \A a \in 0 .. Len(data) - 1 : calls[a + 1] = <<a, data[a + 1]>>

C7_Witness ==
    /\ pc = "ran"
    /\ old_data = <<>>
    /\ Len(data) = 3
    /\ data[1] = data[2]
    /\ Len(calls) = 3
    /\ reports = <<[kind |-> "Wrote", start |-> 0, end |-> 2, count |-> 3]>>

(* C8: when old_data equals data at every address of data, write issues no *)
(* write_byte, sends nothing, and reports only "nothing to do".            *)
C8_EqualIsNothingToDo ==
    (/\ w_called
     /\ Len(old_data) > 0
     /\ Len(old_data) >= Len(data)
     /\ \A a \in 0 .. Len(data) - 1 : IsSkipped(a)) =>
        /\ calls = <<>>
        /\ Len(sink) = sink_at_call
        /\ \A k \in 1 .. Len(reports) : reports[k].kind = "Nothing"
        /\ pc \in {"ran", "raised", "closed"} =>
              reports = <<[kind |-> "Nothing", start |-> 0,
                           end |-> 0, count |-> 0]>>

----------------------------------------------------------------------------
(* Properties of SN74LV8153.write *)

(* the step is a write call on channel ch that repeats, after masking to   *)
(* 8 bits, the value of the previous write call on ch                      *)
RepeatedWrite(ch) ==
    /\ Len(arg_hist[ch]) > 0
    /\ Len(arg_hist'[ch]) = Len(arg_hist[ch]) + 1
    /\ arg_hist'[ch][Len(arg_hist'[ch])] % 256
         = arg_hist[ch][Len(arg_hist[ch])] % 256

(* C9: the second of two consecutive write calls on a channel with the     *)
(* same value after masking sends no bytes and leaves every                *)
(* last_written_value as it is, so the two calls put at most the one pair  *)
(* of the first call on the sink.                                          *)
C9_RepeatSuppressed ==
    [][\A ch \in Channels :
          RepeatedWrite(ch) => sink' = sink /\ last_value' = last_value]_vars

C9_Witness ==
    /\ pc = "chan"
    /\ arg_hist[DATA] = <<171, 427>>
    /\ arg_hist[ADDR_LO] = <<>>
    /\ arg_hist[ADDR_HI] = <<>>
    /\ sink = <<181, 165>>
    /\ last_value[DATA] = 171

(* C10: after every write call each latch holds the value it would hold    *)
(* if every write were transmitted.                                        *)
C10_SuppressionUnobservable ==
    \A ch \in Channels : Latch(sink, ch) = Latch(ref_sink, ch)

C10_Witness ==
    /\ pc = "chan"
    /\ Len(sink) = 4
    /\ Len(ref_sink) = 8
    /\ Latch(sink, ADDR_HI) = 171
    /\ Latch(sink, DATA) = 0

----------------------------------------------------------------------------
(* Properties of the session *)

(* value carried by the telegram pair at positions 2k-1 and 2k of s *)
PairValue(s, k) == (s[2 * k] \div 16) * 16 + (s[2 * k - 1] \div 16)
PairChannel(s, k) == (s[2 * k - 1] \div 2) % 8

(* C11: the sink always holds whole telegram pairs: an even number of      *)
(* bytes, and the bytes at positions 2k-1 and 2k are the low and the high  *)
(* nibble telegram of one write on one of the three channels.              *)
C11_PairsAdjacent ==
    /\ Len(sink) % 2 = 0
    /\ \A k \in 1 .. (Len(sink) \div 2) :
          /\ Bits1to3(sink[2 * k - 1]) = Bits1to3(sink[2 * k])
          /\ Bits1to3(sink[2 * k - 1]) \in Channels
          /\ Bit0(sink[2 * k - 1]) = 1
          /\ Bit0(sink[2 * k]) = 1
          /\ PairValue(sink, k) \in 0 .. 255

C11_Witness ==
    /\ pc = "wb_stamp"
    /\ Len(sink) = 12
    /\ PairChannel(sink, 2) = DATA
    /\ PairChannel(sink, 3) = ADDR_LO
    /\ PairChannel(sink, 4) = ADDR_HI

(* C12: a write_byte with an address above 0x7FFF raises the assertion     *)
(* error before anything is sent: the sink, every last_written_value and   *)
(* the time of the last write stay as they are.                            *)
C12_AddressAssert ==
    [][(pc = "open" /\ ncalls' = ncalls + 1 /\ wb_addr' > 32767) =>
          /\ pc' = "raised"
          /\ error' = "AssertionError"
          /\ sink' = sink
          /\ last_value' = last_value
          /\ dt_last_write' = dt_last_write]_vars

C12_Witness ==
    /\ pc = "raised"
    /\ error = "AssertionError"
    /\ wb_addr = 32768
    /\ ncalls = 2
    /\ Len(sink) = 12

(* C15: the first telegram pair of a session is the write disable value   *)
(* on the high address channel, and from then on the value last sent to    *)
(* that channel has the write disable bit set except between the strobe    *)
(* assert and the strobe release of a write_byte.                          *)
C15_WriteDisabledAtRest ==
    pc # "new" =>
        /\ Len(sink) >= 2
        /\ PairChannel(sink, 1) = ADDR_HI
        /\ PairValue(sink, 1) = 128
        /\ pc # "wb_release" => Latch(sink, ADDR_HI) \div 128 = 1
        /\ pc = "wb_release" => Latch(sink, ADDR_HI) \div 128 = 0

C15_Witness ==
    /\ pc = "ran"
    /\ Len(calls) = 2
    /\ Latch(sink, ADDR_HI) = 128
    /\ Len(sink) > 12

(* C20: write on an empty data ends without an error, calls no write_byte  *)
(* and reports no run with a byte count other than zero.                  *)
C20_EmptyPrimary ==
    (w_called /\ data = <<>>) =>
        /\ error = "none"
        /\ calls = <<>>
        /\ \A k \in 1 .. Len(reports) : reports[k].count = 0

(* C16: every write_byte that passes the address assertion sends between  *)
(* 2 and 5 telegram pairs, and the last two are the high address channel's *)
(* pairs for addr >> 8 (strobe asserted) and (addr >> 8) | 0x80 (strobe    *)
(* released): neither strobe write is suppressed.                          *)
C16_OnePulsePerByte ==
    /\ pc = "wb_release" =>
          /\ Len(sink) - wb_sink0 \in {2, 4, 6, 8}
          /\ PairChannel(sink, Len(sink) \div 2) = ADDR_HI
          /\ PairValue(sink, Len(sink) \div 2) = wb_addr \div 256
    /\ pc = "wb_stamp" =>
          /\ Len(sink) - wb_sink0 \in {4, 6, 8, 10}
          /\ PairChannel(sink, Len(sink) \div 2) = ADDR_HI
          /\ PairValue(sink, Len(sink) \div 2) = (wb_addr \div 256) + 128
          /\ PairChannel(sink, (Len(sink) \div 2) - 1) = ADDR_HI
          /\ PairValue(sink, (Len(sink) \div 2) - 1) = wb_addr \div 256

(* a write_byte repeating address and byte of the one before: two pairs *)
C16_Witness ==
    /\ pc = "wb_stamp"
    /\ ncalls = 2
    /\ wb_addr = 511
    /\ Len(sink) - wb_sink0 = 4
    /\ Len(sink) = 16

----------------------------------------------------------------------------
(* Properties of last_written_value *)

(* the step is a write call on channel ch *)
WriteCallOn(ch) == Len(arg_hist'[ch]) = Len(arg_hist[ch]) + 1

CallValue(ch) == arg_hist'[ch][Len(arg_hist'[ch])] % 256

(* C17: last_written_value of a channel is the unknown value while no pair *)
(* for the channel is on the sink and the value of the channel's most      *)
(* recent pair afterwards; a write sends exactly one pair if it is the     *)
(* channel's first or its masked value differs from last_written_value and *)
(* nothing otherwise, and leaves last_written_value of the other channels  *)
(* alone.                                                                  *)
C17_LastValueTracksSink ==
    /\ [](\A ch \in Channels :
             /\ last_value[ch] = NoValue <=> PairsOf(sink, ch) = {}
             /\ last_value[ch] # NoValue =>
                   \E k \in 1 .. (Len(sink) \div 2) :
                      /\ PairChannel(sink, k) = ch
                      /\ PairValue(sink, k) = last_value[ch]
                      /\ \A j \in (k + 1) .. (Len(sink) \div 2) :
                            PairChannel(sink, j) # ch)
    /\ [][\A ch \in Channels :
             WriteCallOn(ch) =>
                /\ IF arg_hist[ch] = <<>> \/ CallValue(ch) # last_value[ch]
                   THEN /\ Len(sink') = Len(sink) + 2
                        /\ SubSeq(sink', 1, Len(sink)) = sink
                        /\ PairChannel(sink', Len(sink') \div 2) = ch
                        /\ PairValue(sink', Len(sink') \div 2) = CallValue(ch)
                   ELSE sink' = sink
                /\ last_value'[ch] = CallValue(ch)
                /\ \A c \in Channels \ {ch} : last_value'[c] = last_value[c]]_vars

C17_Witness ==
    /\ pc = "chan"
    /\ arg_hist[ADDR_LO] = <<0, 256>>
    /\ arg_hist[DATA] = <<171, 0>>
    /\ arg_hist[ADDR_HI] = <<>>
    /\ last_value = [c \in Channels |-> IF c = ADDR_HI THEN NoValue ELSE 0]
    /\ Len(sink) = 6

----------------------------------------------------------------------------
(* Properties of failing sessions *)

(* C14: when the program has ended, by whatever path, the transport it     *)
(* opened is closed.                                                       *)
C14_ClosedOnEveryExit == pc \in {"closed", "aborted"} => ~serial_open

(* C18: when Serial.write raises, that step and every later step of the    *)
(* session leave the sink, every last_written_value and the time of the    *)
(* last write as they are, and the program is on its way out.              *)
C18_FailureAborts ==
    /\ [](error = "SerialException" => pc \in {"raised", "closed", "aborted"})
    /\ [][error' = "SerialException" =>
             /\ sink' = sink
             /\ last_value' = last_value
             /\ dt_last_write' = dt_last_write
             /\ calls' = calls
             /\ reports' = reports]_vars

C18_Witness ==
    /\ pc = "closed"
    /\ error = "SerialException"
    /\ Len(calls) = 2
    /\ Len(sink) - wb_sink0 = 4
    /\ Latch(sink, ADDR_HI) = 0

----------------------------------------------------------------------------
(* Properties at the end of the address space *)

(* the state InitLong starts from is the state the loop is in after a      *)
(* common prefix, here for the prefixes the session specification reaches  *)
AfterCommonPrefix ==
    (/\ pc = "w_next"
     /\ ncalls = 0
     /\ now = 0
     /\ addr_bound
     /\ \A a \in 0 .. addr : IsSkipped(a)) =>
        /\ last_chunk_was_old = TRUE
        /\ last_chunk_start = 0
        /\ reports = <<>>
        /\ calls = <<>>
        /\ w_called = TRUE
        /\ sink_at_call = 2
        /\ serial_open = TRUE
        /\ sink = protocol(ADDR_HI, ADDR_HI_WRITE_DISABLE_BIT)
        /\ last_value = [c \in Channels |->
                            IF c = ADDR_HI THEN ADDR_HI_WRITE_DISABLE_BIT
                            ELSE NoValue]
        /\ dt_last_write = 0
        /\ wb_addr = 0
        /\ wb_byte = 0
        /\ wb_ret = "open"
        /\ wb_sink0 = 0
        /\ t_strobe = 0
        /\ error = "none"

(* C13: with more than 2^15 bytes of data, write raises the assertion      *)
(* error when the loop reaches address 2^15 and never ends normally; no    *)
(* write_byte is called for an address of 2^15 or above and nothing is     *)
(* sent after the error.                                                   *)
C13_OverflowAborts ==
    /\ [](Len(data) > 32768 =>
             /\ pc # "ran"
             /\ \A k \in 1 .. Len(calls) : calls[k][1] < 32768
             /\ addr <= 32768
             /\ addr = 32768 =>
                   pc \in {"raised", "closed"} /\ error = "AssertionError")
    /\ [][error = "AssertionError" =>
             sink' = sink /\ calls' = calls /\ reports' = reports]_vars

C13_Witness ==
    /\ pc = "raised"
    /\ error = "AssertionError"
    /\ Len(data) = 32769
    /\ addr = 32768
    /\ calls = <<<<32767, data[32768]>>>>
    /\ Len(sink) > 2

(* C19: data of at most 2^15 bytes never raises the address overflow       *)
(* assertion, however long old_data is.                                    *)
C19_FittingDataNeverOverflows ==
    Len(data) <= 32768 => error # "AssertionError"

====
